---- MODULE Spec2Model ----
(***************************************************************************)
(* Toy dynamical systems of the SandysSquarr dashboards: the boundary      *)
(* policies, the rotation / quench / collapse loops and the corner-dwell   *)
(* bookkeeping.                                                            *)
(*                                                                         *)
(* Numbers.  The programs compute with Python floats; the properties       *)
(* checked here are the exact (real-number) ones, so a number is modelled  *)
(* as an exact rational <<n, d>> in lowest terms with d > 0.  cos/sin of   *)
(* the rotation angle theta are drawn from rational points of the unit     *)
(* circle: 0.2213, 0.6435 and 0.9273 rad.  page_2 reaches all three        *)
(* (theta = omega * dt <= 1.0).  toy3_corner_quench is a function of       *)
(* theta; its dashboard slider stops at 0.25, and the larger angles are    *)
(* passed to it here so that a run of MaxSteps steps reaches the corners   *)
(* that the dashboard's runs of thousands of small steps reach.            *)
(***************************************************************************)
EXTENDS Integers, Sequences, FiniteSets, TLC

(* ------------------------------ bounds -------------------------------- *)
\* Longest simulated run (the sliders ask for 500..80000 steps).
MaxSteps == 4
\* Largest common denominator a simulated state may have: a step whose
\* result needs more precision is not taken (the run is cut there).
DenCap == 40000
\* Longest trajectory handed to corner_dwell_stats on its own.
MaxLen == 5
\* Boundary-policy arguments range over [-MaxX/2, MaxX/2].
MaxX == 12

(* ------------------------- exact arithmetic --------------------------- *)
Abs(a) == IF a < 0 THEN -a ELSE a

RECURSIVE GCD(_, _)
GCD(a, b) == IF b = 0 THEN a ELSE GCD(b, a % b)

LCM(a, b) == (a \div GCD(a, b)) * b

\* n/d in lowest terms (d > 0).
Rat(n, d) == LET g == GCD(Abs(n), d) IN <<n \div g, d \div g>>

Num(r) == r[1]
Den(r) == r[2]

RAdd(a, b) ==
  LET l == LCM(a[2], b[2])
  IN  Rat(a[1] * (l \div a[2]) + b[1] * (l \div b[2]), l)

RNeg(a) == <<-a[1], a[2]>>

RSub(a, b) == RAdd(a, RNeg(b))

RMul(a, b) ==
  LET g1 == GCD(Abs(a[1]), b[2])
      g2 == GCD(Abs(b[1]), a[2])
  IN  Rat((a[1] \div g1) * (b[1] \div g2), (a[2] \div g2) * (b[2] \div g1))

\* a / b for b > 0.
RDiv(a, b) == RMul(a, <<b[2], b[1]>>)

\* a/b < c/d for b, d > 0, by comparing the continued fractions (no products).
RECURSIVE FracLess(_, _, _, _)
FracLess(a, b, c, d) ==
  LET qa == a \div b
      qc == c \div d
      ra == a % b
      rc == c % d
  IN  IF qa # qc THEN qa < qc
      ELSE IF rc = 0 THEN FALSE
      ELSE IF ra = 0 THEN TRUE
      ELSE FracLess(d, rc, b, ra)

RLt(a, b) == FracLess(a[1], a[2], b[1], b[2])
RLe(a, b) == ~RLt(b, a)
RGt(a, b) == RLt(b, a)
RGe(a, b) == ~RLt(a, b)

RMax(a, b) == IF RLt(a, b) THEN b ELSE a
RMin(a, b) == IF RLt(b, a) THEN b ELSE a

\* Python's float x % m for m > 0: x - m * floor(x / m), in [0, m).
RMod(x, m) ==
  LET q == RDiv(x, m)
  IN  RSub(x, RMul(<<q[1] \div q[2], 1>>, m))

Zero == <<0, 1>>
One == <<1, 1>>
Half == <<1, 2>>

\* Sum of a sequence of integers / number of TRUE entries of a flag sequence.
RECURSIVE SeqSum(_)
SeqSum(q) == IF q = <<>> THEN 0 ELSE q[1] + SeqSum(Tail(q))

RECURSIVE SeqMax(_)
SeqMax(q) ==
  IF q = <<>> THEN 0
  ELSE LET m == SeqMax(Tail(q)) IN IF q[1] > m THEN q[1] ELSE m

CountTrue(f) == Cardinality({j \in DOMAIN f : f[j]})

(* ------------------------ recorded trajectory ------------------------- *)
\* Faulty variant of the recording: the second state is dropped.
Record_SkipSecond(h, st) == IF Len(h) = 1 THEN h ELSE Append(h, st)

\* Zh.append(Z) of the list-building loops, Z[i] = z of the loops that fill
\* a preallocated array in index order: one state per iteration.
Record(h, st) == Append(h, st)

(* ------------------------- boundary policies -------------------------- *)
\* streamlit_app.clamp (np.clip computes the same value).
clamp(x, lo, hi) == RMax(lo, RMin(hi, x))

\* 3_Toy_3_Corner_Collapse.clamp with its defaults lo = 0.0, hi = 1.0.
clamp01(x) == RMax(Zero, RMin(One, x))

\* Faulty variant of reflect01: one mirror at the wall crossed, no fold.
reflect01_SingleFold(x, lo, hi) ==
  IF RGe(lo, hi) THEN lo
  ELSE IF RGt(x, hi) THEN RSub(RMul(<<2, 1>>, hi), x)
  ELSE IF RLt(x, lo) THEN RSub(RMul(<<2, 1>>, lo), x)
  ELSE x

\* Faulty variant of reflect01: the fold is taken modulo span, not 2 * span.
reflect01_WrapSpan(x, lo, hi) ==
  IF RGe(lo, hi) THEN lo
  ELSE LET span == RSub(hi, lo)
           y == RMod(RSub(x, lo), span)
       IN  RAdd(lo, y)

\* Faulty variant of reflect01: the mirror branch (y > span) is missing.
reflect01_NoMirror(x, lo, hi) ==
  IF RGe(lo, hi) THEN lo
  ELSE LET span == RSub(hi, lo)
           y == RMod(RSub(x, lo), RMul(<<2, 1>>, span))
       IN  RAdd(lo, y)

\* 1_Toy_1_Square.reflect01
reflect01(x, lo, hi) ==
  IF RGe(lo, hi) THEN lo
  ELSE LET span == RSub(hi, lo)
           y == RMod(RSub(x, lo), RMul(<<2, 1>>, span))
       IN  IF RGt(y, span)
           THEN RAdd(lo, RSub(RMul(<<2, 1>>, span), y))
           ELSE RAdd(lo, y)

\* page_1_square: Z = (t / Tz) % 1.0
wrap(t, T) == RMod(RDiv(t, T), One)

(* -------------------------- corner classifiers ------------------------ *)
\* page_2_coupled_shear.in_corner (non-strict comparisons).
in_corner_shear(z, sg, th) ==
  \/ RGe(z, th) /\ RGe(sg, th)
  \/ RLe(z, RSub(One, th)) /\ RLe(sg, RSub(One, th))

\* 3_Toy3_CornerQuench.in_corner (strict comparisons).
in_corner(z, sg, th) ==
  \/ RGt(z, th) /\ RGt(sg, th)
  \/ RLt(z, RSub(One, th)) /\ RLt(sg, RSub(One, th))

\* streamlit_app.corner_collapse_toy.in_corner (corner_th is its closure).
in_corner_app(z, sg, th) ==
  \/ RGt(z, th) /\ RGt(sg, th)
  \/ RLt(z, RSub(One, th)) /\ RLt(sg, RSub(One, th))

\* 3_Toy_3_Corner_Collapse.in_corner
in_corner_collapse(z, sg, th) ==
  \/ RGt(z, th) /\ RGt(sg, th)
  \/ RLt(z, RSub(One, th)) /\ RLt(sg, RSub(One, th))

\* page_2_coupled_shear.target_point
target_point(which, th) ==
  IF which = "Center (0.5,0.5)" THEN <<Half, Half>>
  ELSE IF which = "Low-Low corner" THEN <<RSub(One, th), RSub(One, th)>>
  ELSE IF which = "High-High corner" THEN <<th, th>>
  ELSE <<Half, Half>>

\* Faulty variant of the rotation: first-order (Euler) update with the
\* cosine dropped, which is not an isometry.
RotateShear_Euler(z, sg, cs, sn) ==
  LET zc == RSub(z, Half)
      sc == RSub(sg, Half)
  IN  <<RAdd(RAdd(zc, RMul(sn, sc)), Half),
        RAdd(RSub(sc, RMul(sn, zc)), Half)>>

(* ------------------------------ rotation ------------------------------ *)
\* page_2_coupled_shear, the exact conservative step: both new offsets are
\* computed from the pre-step pair.
RotateShear(z, sg, cs, sn) ==
  LET zc == RSub(z, Half)
      sc == RSub(sg, Half)
      zc_new == RAdd(RMul(cs, zc), RMul(sn, sc))
      sc_new == RAdd(RMul(RNeg(sn), zc), RMul(cs, sc))
  IN  <<RAdd(zc_new, Half), RAdd(sc_new, Half)>>

\* Faulty variant of the quench: the pull has the wrong sign.
QuenchShear_Away(x, q, t) == RSub(RMul(RAdd(One, q), x), RMul(q, t))

\* Faulty variant of the quench: the state keeps its full weight, so a
\* zero strength still moves it.
QuenchShear_FullWeight(x, q, t) == RAdd(x, RMul(RSub(One, q), RSub(t, x)))

\* Quench of one coordinate: (1 - quench_strength) * Z + quench_strength * tZ
QuenchShear(x, q, t) == RAdd(RMul(RSub(One, q), x), RMul(q, t))

\* Squared distance from the centre (0.5, 0.5), over a common denominator.
Dist2(z, sg) ==
  LET zc == RSub(z, Half)
      sc == RSub(sg, Half)
      d == LCM(zc[2], sc[2])
      a == zc[1] * (d \div zc[2])
      b == sc[1] * (d \div sc[2])
  IN  Rat(a * a + b * b, d * d)

\* The pair fits the precision bound.
Fits(z, sg) ==
  /\ Den(z) <= DenCap
  /\ Den(sg) <= DenCap
  /\ LCM(LCM(Den(z), Den(sg)), 2) <= DenCap

\* Faulty variant of the amplitude rotation: two sequential assignments,
\* the second reading the already-rotated u.
RotateQuench_Sequential(a, b, cs, sn) ==
  LET a_new == RSub(RMul(cs, a), RMul(sn, b))
  IN  <<a_new, RAdd(RMul(sn, a_new), RMul(cs, b))>>

\* 3_Toy3_CornerQuench, the rotation of the amplitude: the tuple assignment
\* u, v = (c*u - s*v), (s*u + c*v) reads the pre-step pair.
RotateQuench(a, b, cs, sn) ==
  <<RSub(RMul(cs, a), RMul(sn, b)), RAdd(RMul(sn, a), RMul(cs, b))>>

\* 3_Toy3_CornerQuench lines 92-101: the point handed to in_corner
\* (mapped, sheared when shear != 0), before clipping.
ShearView(a, b, sh) ==
  IF sh # Zero THEN <<RAdd(RAdd(Half, a), RMul(sh, b)), RAdd(Half, b)>>
  ELSE <<RAdd(Half, a), RAdd(Half, b)>>

\* 3_Toy3_CornerQuench lines 105-107: u *= (1 - quench_strength)
ShrinkQuench(a, q) == RMul(a, RSub(One, q))

(* ----------------------- dwell bookkeeping -------------------------- *)
\* Faulty variant of the dwell count: every flag is counted.
FlagSum_Len(fl) == Len(fl)

\* corner_dwell_stats line 43: dwell_steps = int(flags.sum())
FlagSum(fl) == Cardinality({j \in DOMAIN fl : fl[j]})

\* corner_dwell_stats line 44: dwell_frac
DwellFrac(n, len) == IF len # 0 THEN Rat(n, len) ELSE Zero

\* Faulty variant of the entry count: no rising-edge test.
NewEntries_NoEdge(e, f, p) == IF f THEN e + 1 ELSE e

\* corner_dwell_stats lines 52-53: if f and not prev: entries += 1
NewEntries(e, f, p) == IF f /\ ~p THEN e + 1 ELSE e

\* corner_dwell_stats lines 54-58: run += 1, else run = 0
NewRun(r, f) == IF f THEN r + 1 ELSE 0

\* Faulty variant of the longest run: the maximum is taken before the
\* increment of run.
NewMaxRun_Stale(m, r, f) == IF f /\ r - 1 > m THEN r - 1 ELSE m

\* corner_dwell_stats line 56: max_run = max(max_run, run), run already
\* incremented.
NewMaxRun(m, r, f) == IF f /\ r > m THEN r ELSE m

\* page_2_coupled_shear lines 104-105: a run that just ended is recorded.
EndRun(lengths, cur) == IF cur > 0 THEN Append(lengths, cur) ELSE lengths

\* Faulty variant of the final close: the open run is not recorded.
CloseFinalRun_Dropped(lengths, cur) == lengths

\* page_2_coupled_shear lines 113-114: close final run.
CloseFinalRun(lengths, cur) ==
  IF cur > 0 THEN Append(lengths, cur) ELSE lengths

\* page_2_coupled_shear lines 106 and 115: corner_hits += 1 with the run.
CountRun(hits, cur) == IF cur > 0 THEN hits + 1 ELSE hits

\* page_2_coupled_shear line 173: corner_steps / max(1, steps)
ShearDwellFraction(n, st) == Rat(n, IF 1 > st THEN 1 ELSE st)

\* page_2_coupled_shear line 176: max of the run lengths, 0 if none.
ShearMaxRun(lengths) == IF lengths # <<>> THEN SeqMax(lengths) ELSE 0

(* --------------------------- status bands ---------------------------- *)
\* page_2_coupled_shear lines 185-190: success / warning / error.
StatusBand(f) ==
  IF RLt(f, Rat(1, 20)) THEN "stable"
  ELSE IF RLt(f, Rat(3, 20)) THEN "pre-instability"
  ELSE "high instability"

\* 3_Toy3_CornerQuench lines 145-150.
QuenchStatusBand(f) ==
  IF RLt(f, Rat(1, 20)) THEN "stable"
  ELSE IF RLt(f, Rat(3, 20)) THEN "pre-instability"
  ELSE "high instability"

\* streamlit_app lines 190-195.
AppStatusBand(f) ==
  IF RLt(f, Rat(1, 20)) THEN "stable"
  ELSE IF RLt(f, Rat(3, 20)) THEN "pre-instability"
  ELSE "high instability"

\* 3_Toy_3_Corner_Collapse lines 106-113: a fraction equal to 0 gets the
\* warning "No corner entry detected ..." before the three bands are tried.
CollapseStatusBand(f) ==
  IF f = Zero THEN "no corner entry"
  ELSE IF RLt(f, Rat(1, 20)) THEN "stable"
  ELSE IF RLt(f, Rat(3, 20)) THEN "pre-instability"
  ELSE "high instability"

(* ------------------------------ inputs -------------------------------- *)
\* Slider values (kickZ, kickS in [-0.45, 0.45]).
Kicks == {Rat(-2, 5), Rat(-1, 5), Rat(0, 1), Rat(1, 5), Rat(2, 5)}
\* (cos, sin) of theta = omega * dt: 0.2213, 0.6435 and 0.9273 rad.
Rotations == {<<Rat(40, 41), Rat(9, 41)>>, <<Rat(4, 5), Rat(3, 5)>>,
              <<Rat(3, 5), Rat(4, 5)>>}
Thresholds == {Rat(7, 10), Rat(4, 5)}
Strengths == {Zero, Half, One}
Targets == {"Center (0.5,0.5)", "Low-Low corner", "High-High corner"}
\* 3_Toy3_CornerQuench sliders: amplitude, shear, quench strength (0..0.2).
Amps == {Rat(1, 5), Rat(2, 5), Rat(49, 100)}
Shears == {Zero, One, Rat(-3, 2)}
QuenchStrengths == {Zero, Rat(1, 5)}
\* Trajectory points handed to corner_dwell_stats on its own.
Points == {<<Rat(9, 10), Rat(9, 10)>>, <<Half, Half>>, <<Rat(1, 10), Rat(1, 10)>>}
\* Arguments of the boundary policies: x in [-MaxX/2, MaxX/2], (lo, hi).
Xs == {Rat(j, 2) : j \in -MaxX..MaxX}
BoundPairs == {<<Zero, One>>, <<Zero, Rat(42, 25)>>, <<Rat(-1, 1), Rat(5, 2)>>,
               <<One, One>>}
\* page_1_square sliders: dt and the periods Tz, Ts.
ClockSteps == {Rat(13, 1000), Rat(1, 20)}
Periods == {Half, One, Rat(809, 500)}
\* square_toy, coupled_toy, simulate_coupled, toy1_square: dt (the sliders
\* stop at 0.06; the functions are also called with larger steps so that a
\* run of MaxSteps steps reaches the walls), couplings, clock rates,
\* scan_max.
ToySteps == {Rat(1, 20), One, <<2, 1>>}
CoupledSteps == {Rat(1, 50), Rat(1, 5), Half}
Couplings == {Zero, Rat(3, 2), Rat(-1, 1)}
ClockRates == {One, <<3, 1>>}
ScanMaxes == {One, Rat(42, 25)}
Toy1Steps == {Rat(1, 20), One}
\* Dwell fractions handed to the status reports: the band edges and values
\* inside each band.
Fractions == {Zero, Rat(1, 25), Rat(1, 20), Rat(1, 10), Rat(3, 20),
              Rat(1, 5), One}
StatusSites == {"status_page_2", "status_quench", "status_collapse",
                "status_app"}
\* Arguments of the in_corner implementations: coordinates on, just inside
\* and just outside the thresholds the sliders offer.
CornerCoords == {Zero, Rat(1, 10), Rat(3, 20), Rat(1, 5), Rat(1, 4),
                 Rat(3, 10), Half, Rat(7, 10), Rat(3, 4), Rat(4, 5),
                 Rat(17, 20), Rat(9, 10), One}
CornerThresholds == {Rat(7, 10), Rat(3, 4), Rat(4, 5), Rat(17, 20)}
\* Collapse toys: dt, drives, collapse strengths, thresholds, start points.
CollapseSteps == {Rat(1, 20)}
Drives == {One, <<2, 1>>}
AppCollapse == {Half}
PageCollapse == {Half, <<5, 1>>}
CollapseThresholds == {Rat(3, 4), Rat(4, 5)}
\* corner_collapse_toy as a function: thresholds down to 0.65 and a step
\* of 1 besides the slider values, so that short runs reach the walls.
AppThresholds == {Rat(13, 20), Rat(3, 4), Rat(4, 5)}
AppCollapseSteps == {Rat(1, 20), One}
Starts == {Rat(1, 10), Rat(3, 5), Rat(9, 10)}

(* ------------------------------- state -------------------------------- *)
VARIABLES
  prog,                 \* which script / function is running
  pc,                   \* its position
  steps, i,             \* requested step count, loop counter
  Z, S,                 \* current phase state
  Zh, Sh,               \* recorded trajectory
  Zrot, Srot,           \* the same run under the rotation step alone
  corner_th, c, s, quench_strength,
  kickZ, kickS, quench_target,
  corner_hits, corner_steps, corner_run_lengths, current_run,
  dwell_fraction, max_run,
  u, v, amp, shear,
  flags, dwell_steps, dwell_frac, entries, run, prev, fi,
  policy, x, lo, hi, dt, Tz, y,
  drive_Z, drive_S, k_collapse, Z0, S0, hits,
  k_zs, k_sz, omega_z, omega_s,   \* couplings, clock rates
  status                          \* the qualitative status reported

simVars == <<steps, i, Z, S, Zh, Sh>>
refVars == <<Zrot, Srot>>
rotPar == <<corner_th, c, s, quench_strength>>
shearPar == <<kickZ, kickS, quench_target>>
bookVars == <<corner_hits, corner_steps, corner_run_lengths, current_run,
              dwell_fraction>>
quenchVars == <<u, v, amp, shear>>
statVars == <<flags, dwell_steps, dwell_frac, entries, run, prev, fi>>
bndVars == <<policy, x, lo, hi, dt, Tz, y>>
collVars == <<drive_Z, drive_S, k_collapse, Z0, S0, hits>>
toyVars == <<k_zs, k_sz, omega_z, omega_s, status>>

vars == <<prog, pc, simVars, refVars, rotPar, shearPar, bookVars, max_run,
          quenchVars, statVars, bndVars, collVars, toyVars>>

\* Values of the variables a program does not have.
NoRef == Zrot = <<>> /\ Srot = <<>>
NoShear ==
  /\ kickZ = Zero /\ kickS = Zero /\ quench_target = ""
  /\ corner_hits = 0 /\ corner_steps = 0 /\ corner_run_lengths = <<>>
  /\ current_run = 0 /\ dwell_fraction = Zero
NoQuench == u = Zero /\ v = Zero /\ amp = Zero /\ shear = Zero
NoStats ==
  /\ flags = <<>> /\ dwell_steps = 0 /\ dwell_frac = Zero /\ entries = 0
  /\ run = 0 /\ prev = FALSE /\ fi = 0
NoSim ==
  /\ steps = 0 /\ i = 0 /\ Z = Zero /\ S = Zero /\ Zh = <<>> /\ Sh = <<>>
  /\ corner_th = Zero /\ c = One /\ s = Zero /\ quench_strength = Zero
NoBoundary ==
  /\ policy = "" /\ x = Zero /\ lo = Zero /\ hi = Zero /\ dt = Zero
  /\ Tz = One /\ y = Zero
NoCollapse ==
  /\ drive_Z = Zero /\ drive_S = Zero /\ k_collapse = Zero /\ Z0 = Zero
  /\ S0 = Zero /\ hits = <<>>
NoToy ==
  /\ k_zs = Zero /\ k_sz = Zero /\ omega_z = Zero /\ omega_s = Zero
  /\ status = ""

(* ------------------- page_2_coupled_shear.py (script) ----------------- *)
InitShear ==
  /\ prog = "shear"
  /\ pc = "loop"
  /\ steps \in 1..MaxSteps
  /\ i = 0
  /\ kickZ \in Kicks
  /\ kickS \in Kicks
  /\ Z = RAdd(Half, kickZ)
  /\ S = RAdd(Half, kickS)
  /\ Zh = <<>>
  /\ Sh = <<>>
  /\ NoRef
  /\ \E r \in Rotations : c = r[1] /\ s = r[2]
  /\ corner_th \in Thresholds
  /\ quench_strength \in Strengths
  /\ quench_target \in Targets
  /\ corner_hits = 0
  /\ corner_steps = 0
  /\ corner_run_lengths = <<>>
  /\ current_run = 0
  /\ dwell_fraction = Zero
  /\ max_run = 0
  /\ NoQuench
  /\ NoStats
  /\ NoBoundary
  /\ NoCollapse
  /\ NoToy

\* One iteration of the core dynamics loop (lines 86-110).
ShearStep ==
  /\ prog = "shear"
  /\ pc = "loop"
  /\ i < steps
  /\ LET r == RotateShear(Z, S, c, s)
         t == target_point(quench_target, corner_th)
         hit == in_corner_shear(r[1], r[2], corner_th)
         Zn == IF hit THEN QuenchShear(r[1], quench_strength, t[1]) ELSE r[1]
         Sn == IF hit THEN QuenchShear(r[2], quench_strength, t[2]) ELSE r[2]
         p == IF i = 0 THEN <<RAdd(Half, kickZ), RAdd(Half, kickS)>>
              ELSE <<Zrot[i], Srot[i]>>
         pr == RotateShear(p[1], p[2], c, s)
     IN  /\ Fits(r[1], r[2])
         /\ Fits(Zn, Sn)
         /\ Fits(pr[1], pr[2])
         /\ Z' = Zn
         /\ S' = Sn
         /\ Zh' = Record(Zh, Zn)
         /\ Sh' = Record(Sh, Sn)
         /\ Zrot' = Append(Zrot, pr[1])
         /\ Srot' = Append(Srot, pr[2])
         /\ corner_steps' = IF hit THEN corner_steps + 1 ELSE corner_steps
         /\ current_run' = IF hit THEN current_run + 1 ELSE 0
         /\ corner_run_lengths' =
              IF hit THEN corner_run_lengths
              ELSE EndRun(corner_run_lengths, current_run)
         /\ corner_hits' =
              IF hit THEN corner_hits ELSE CountRun(corner_hits, current_run)
  /\ i' = i + 1
  /\ UNCHANGED <<prog, pc, steps, rotPar, shearPar, dwell_fraction, max_run,
                 quenchVars, statVars, bndVars, collVars, toyVars>>

\* After the loop: "close final run" (lines 112-115) and the diagnostics
\* (lines 173-176).
ShearClose ==
  /\ prog = "shear"
  /\ pc = "loop"
  /\ i = steps
  /\ pc' = "done"
  /\ LET closed == CloseFinalRun(corner_run_lengths, current_run)
     IN  /\ corner_run_lengths' = closed
         /\ max_run' = ShearMaxRun(closed)
  /\ corner_hits' = CountRun(corner_hits, current_run)
  /\ dwell_fraction' = ShearDwellFraction(corner_steps, steps)
  /\ status' = StatusBand(dwell_fraction')
  /\ UNCHANGED <<prog, simVars, refVars, rotPar, shearPar, corner_steps,
                 current_run, quenchVars, statVars, bndVars, collVars,
                 k_zs, k_sz, omega_z, omega_s>>

(* --------------- 3_Toy3_CornerQuench.py (function + script) ----------- *)
InitQuench ==
  /\ prog = "quench"
  /\ pc = "alloc"
  /\ steps \in -1..MaxSteps
  /\ i = 0
  /\ \E r \in Rotations : c = r[1] /\ s = r[2]
  /\ amp \in Amps
  /\ shear \in Shears
  /\ corner_th \in Thresholds
  /\ quench_strength \in QuenchStrengths
  /\ u = amp
  /\ v = RMul(Rat(-3, 5), amp)
  /\ Z = Zero
  /\ S = Zero
  /\ Zh = <<>>
  /\ Sh = <<>>
  /\ NoRef
  /\ NoShear
  /\ max_run = 0
  /\ NoStats
  /\ NoBoundary
  /\ NoCollapse
  /\ NoToy

\* One iteration of toy3_corner_quench's loop (lines 88-113).
QuenchStep ==
  /\ prog = "quench"
  /\ pc = "loop"
  /\ i < steps
  /\ LET r == RotateQuench(u, v, c, s)
         w == ShearView(r[1], r[2], shear)
         hit == in_corner(clamp(w[1], Zero, One), clamp(w[2], Zero, One),
                          corner_th)
         un == IF hit THEN ShrinkQuench(r[1], quench_strength) ELSE r[1]
         vn == IF hit THEN ShrinkQuench(r[2], quench_strength) ELSE r[2]
         z == clamp(RAdd(Half, un), Zero, One)
         sig == clamp(RAdd(Half, vn), Zero, One)
         p == IF i = 0 THEN <<amp, RMul(Rat(-3, 5), amp)>>
              ELSE <<Zrot[i], Srot[i]>>
         pr == RotateQuench(p[1], p[2], c, s)
     IN  /\ Fits(RAdd(Half, r[1]), RAdd(Half, r[2]))
         /\ Fits(RAdd(Half, un), RAdd(Half, vn))
         /\ Fits(RAdd(Half, pr[1]), RAdd(Half, pr[2]))
         /\ u' = un
         /\ v' = vn
         /\ Z' = z
         /\ S' = sig
         /\ Zh' = Record(Zh, z)
         /\ Sh' = Record(Sh, sig)
         /\ Zrot' = Append(Zrot, pr[1])
         /\ Srot' = Append(Srot, pr[2])
  /\ i' = i + 1
  /\ UNCHANGED <<prog, pc, steps, rotPar, shearPar, bookVars, max_run, amp,
                 shear, statVars, bndVars,
                 collVars, toyVars>>

\* Z = np.empty(steps) (lines 82-83): a negative size raises ValueError.
QuenchAlloc ==
  /\ prog = "quench"
  /\ pc = "alloc"
  /\ pc' = IF steps < 0 THEN "ValueError" ELSE "loop"
  /\ UNCHANGED <<prog, simVars, refVars, rotPar, shearPar, bookVars, max_run,
                 quenchVars, statVars, bndVars, collVars, toyVars>>

\* toy3_corner_quench returns Z, S (line 115): the script hands them to
\* corner_dwell_stats (line 136).
QuenchReturn ==
  /\ prog = "quench"
  /\ pc = "loop"
  /\ i = steps
  /\ pc' = "stats"
  /\ UNCHANGED <<prog, simVars, refVars, rotPar, shearPar, bookVars, max_run,
                 quenchVars, statVars, bndVars, collVars, toyVars>>

(* ------------- corner_dwell_stats(Z, S, corner_th) on its own --------- *)
\* Every trajectory over Points of length at most MaxLen.
PointSeqs == UNION {[1..n -> Points] : n \in 0..MaxLen}

InitDwell ==
  /\ prog = "dwell"
  /\ pc = "stats"
  /\ \E tr \in PointSeqs :
       /\ Zh = [j \in DOMAIN tr |-> tr[j][1]]
       /\ Sh = [j \in DOMAIN tr |-> tr[j][2]]
       /\ steps = Len(tr)
       /\ i = Len(tr)
  /\ Z = Zero
  /\ S = Zero
  /\ corner_th \in Thresholds
  /\ c = One
  /\ s = Zero
  /\ quench_strength = Zero
  /\ NoRef
  /\ NoShear
  /\ max_run = 0
  /\ NoQuench
  /\ NoStats
  /\ NoBoundary
  /\ NoCollapse
  /\ NoToy

\* corner_dwell_stats lines 42-50: the flags, their sum, the fraction and
\* the loop's initial values.
StatsBegin ==
  /\ prog \in {"quench", "dwell"}
  /\ pc = "stats"
  /\ pc' = "statsloop"
  /\ LET fl == [j \in 1..Len(Zh) |-> in_corner(Zh[j], Sh[j], corner_th)]
     IN  /\ flags' = fl
         /\ dwell_steps' = FlagSum(fl)
         /\ dwell_frac' = DwellFrac(FlagSum(fl), Len(fl))
  /\ entries' = 0
  /\ max_run' = 0
  /\ run' = 0
  /\ prev' = FALSE
  /\ fi' = 0
  /\ UNCHANGED <<prog, simVars, refVars, rotPar, shearPar, bookVars,
                 quenchVars, bndVars, collVars, toyVars>>

\* corner_dwell_stats lines 51-59: one iteration of "for f in flags".
StatsStep ==
  /\ prog \in {"quench", "dwell"}
  /\ pc = "statsloop"
  /\ fi < Len(flags)
  /\ LET f == flags[fi + 1]
     IN  /\ entries' = NewEntries(entries, f, prev)
         /\ run' = NewRun(run, f)
         /\ max_run' = NewMaxRun(max_run, NewRun(run, f), f)
         /\ prev' = f
  /\ fi' = fi + 1
  /\ UNCHANGED <<prog, pc, simVars, refVars, rotPar, shearPar, bookVars,
                 quenchVars, flags, dwell_steps, dwell_frac, bndVars,
                 collVars, toyVars>>

\* corner_dwell_stats line 61: return.
StatsReturn ==
  /\ prog \in {"quench", "dwell"}
  /\ pc = "statsloop"
  /\ fi = Len(flags)
  /\ pc' = "done"
  \* the script (lines 136-150) reports the status of the returned fraction
  /\ status' = IF prog = "quench" THEN QuenchStatusBand(dwell_frac) ELSE status
  /\ UNCHANGED <<prog, simVars, refVars, rotPar, shearPar, bookVars, max_run,
                 quenchVars, statVars, bndVars, collVars,
                 k_zs, k_sz, omega_z, omega_s>>

(* ----------------- the boundary policies on their own ----------------- *)
InitBoundary ==
  /\ prog = "boundary"
  /\ pc = "call"
  /\ \/ /\ policy \in {"clamp", "reflect01"}
        /\ x \in Xs
        /\ \E b \in BoundPairs : lo = b[1] /\ hi = b[2]
        /\ dt = Zero
        /\ Tz = One
     \/ /\ policy = "wrap"
        \* x is t[j] of t = np.arange(steps) * dt; the range is [0, 1]
        /\ dt \in ClockSteps
        /\ \E j \in 0..MaxX : x = RMul(Rat(j, 1), dt)
        /\ Tz \in Periods
        /\ lo = Zero
        /\ hi = One
  /\ y = Zero
  /\ NoSim
  /\ NoRef
  /\ NoShear
  /\ max_run = 0
  /\ NoQuench
  /\ NoStats
  /\ NoCollapse
  /\ NoToy

\* One call of the policy.
BoundaryApply ==
  /\ prog = "boundary"
  /\ pc = "call"
  /\ pc' = "ret"
  /\ y' = IF policy = "clamp" THEN clamp(x, lo, hi)
          ELSE IF policy = "reflect01" THEN reflect01(x, lo, hi)
          ELSE wrap(x, Tz)
  /\ UNCHANGED <<prog, simVars, refVars, rotPar, shearPar, bookVars, max_run,
                 quenchVars, statVars, policy, x, lo, hi, dt, Tz,
                 collVars, toyVars>>

(* ------------------ the status reports on their own ------------------- *)
\* The reporting code of one script, handed a dwell fraction.
InitStatus ==
  /\ prog \in StatusSites
  /\ pc = "call"
  /\ \E f \in Fractions :
       /\ dwell_fraction = (IF prog = "status_page_2" THEN f ELSE Zero)
       /\ dwell_frac = (IF prog = "status_page_2" THEN Zero ELSE f)
  /\ kickZ = Zero /\ kickS = Zero /\ quench_target = ""
  /\ corner_hits = 0 /\ corner_steps = 0 /\ corner_run_lengths = <<>>
  /\ current_run = 0
  /\ flags = <<>> /\ dwell_steps = 0 /\ entries = 0
  /\ run = 0 /\ prev = FALSE /\ fi = 0
  /\ max_run = 0
  /\ NoSim
  /\ NoRef
  /\ NoQuench
  /\ NoBoundary
  /\ NoCollapse
  /\ NoToy

StatusReport ==
  /\ prog \in StatusSites
  /\ pc = "call"
  /\ pc' = "ret"
  /\ status' = IF prog = "status_page_2" THEN StatusBand(dwell_fraction)
               ELSE IF prog = "status_quench" THEN QuenchStatusBand(dwell_frac)
               ELSE IF prog = "status_collapse"
                    THEN CollapseStatusBand(dwell_frac)
               ELSE AppStatusBand(dwell_frac)
  /\ UNCHANGED <<prog, simVars, refVars, rotPar, shearPar, bookVars, max_run,
                 quenchVars, statVars, bndVars, collVars,
                 k_zs, k_sz, omega_z, omega_s>>

(* ------------- the in_corner implementations on their own ------------ *)
InitCorner ==
  /\ prog = "corner"
  /\ pc = "call"
  /\ Z \in CornerCoords
  /\ S \in CornerCoords
  /\ corner_th \in CornerThresholds
  /\ steps = 0 /\ i = 0 /\ Zh = <<>> /\ Sh = <<>>
  /\ c = One /\ s = Zero /\ quench_strength = Zero
  /\ NoRef
  /\ NoShear
  /\ max_run = 0
  /\ NoQuench
  /\ NoStats
  /\ NoBoundary
  /\ NoCollapse
  /\ NoToy

\* One call of each implementation on the same (Z, S, th): page_2's,
\* 3_Toy3_CornerQuench's, 3_Toy_3_Corner_Collapse's and streamlit_app's.
CornerCall ==
  /\ prog = "corner"
  /\ pc = "call"
  /\ pc' = "ret"
  /\ flags' = <<in_corner_shear(Z, S, corner_th), in_corner(Z, S, corner_th),
                in_corner_collapse(Z, S, corner_th),
                in_corner_app(Z, S, corner_th)>>
  /\ UNCHANGED <<prog, simVars, refVars, rotPar, shearPar, bookVars, max_run,
                 quenchVars, dwell_steps, dwell_frac, entries, run, prev, fi,
                 bndVars, collVars, toyVars>>

(* --------------- streamlit_app.corner_collapse_toy -------------------- *)
InitCollapse ==
  /\ prog = "collapse"
  /\ pc = "loop"
  /\ steps \in -1..MaxSteps
  /\ i = 0
  /\ dt \in AppCollapseSteps
  /\ drive_Z \in Drives
  /\ drive_S \in Drives
  /\ k_collapse \in AppCollapse
  /\ corner_th \in AppThresholds
  /\ Z = Rat(3, 5)
  /\ S = Rat(2, 5)
  /\ Zh = <<>>
  /\ Sh = <<>>
  /\ Z0 = Zero /\ S0 = Zero /\ hits = <<>>
  /\ c = One /\ s = Zero /\ quench_strength = Zero
  /\ policy = "" /\ x = Zero /\ lo = Zero /\ hi = Zero /\ Tz = One /\ y = Zero
  /\ NoRef
  /\ NoShear
  /\ max_run = 0
  /\ NoQuench
  /\ NoStats
  /\ NoToy

\* One iteration of corner_collapse_toy's loop (lines 111-125).
CollapseStep ==
  /\ prog = "collapse"
  /\ pc = "loop"
  /\ i < steps
  /\ LET hit == in_corner_app(Z, S, corner_th)
         dZ0 == RMul(drive_Z, RSub(Z, Half))
         dS0 == RMul(drive_S, RSub(S, Half))
         dZ == IF hit THEN RMul(dZ0, RSub(One, k_collapse)) ELSE dZ0
         dS == IF hit THEN RMul(dS0, RSub(One, k_collapse)) ELSE dS0
         Zn == clamp(RAdd(Z, RMul(dt, dZ)), Zero, One)
         Sn == clamp(RAdd(S, RMul(dt, dS)), Zero, One)
     IN  /\ Fits(Zn, Sn)
         /\ Z' = Zn
         /\ S' = Sn
         /\ Zh' = Record(Zh, Zn)
         /\ Sh' = Record(Sh, Sn)
  /\ i' = i + 1
  /\ UNCHANGED <<prog, pc, steps, refVars, rotPar, shearPar, bookVars,
                 max_run, quenchVars, statVars, bndVars, collVars, toyVars>>

\* corner_collapse_toy returns the trajectory (line 127); the script goes on
\* to compute_corner_dwell (line 183).
CollapseReturn ==
  /\ prog = "collapse"
  /\ pc = "loop"
  /\ ~(i < steps)
  /\ pc' = "dwell"
  /\ UNCHANGED <<prog, simVars, refVars, rotPar, shearPar, bookVars, max_run,
                 quenchVars, statVars, bndVars, collVars, toyVars>>

\* Faulty variant of the count: one coordinate beyond the threshold is
\* enough.
DwellCount_Either(Zs, Ss, th) ==
  Cardinality({j \in 1..Len(Zs) :
                 \/ RGt(Zs[j], th) \/ RGt(Ss[j], th)
                 \/ RLt(Zs[j], RSub(One, th)) \/ RLt(Ss[j], RSub(One, th))})

\* streamlit_app.compute_corner_dwell lines 49-53: the states counted.
DwellCount(Zs, Ss, th) ==
  Cardinality({j \in 1..Len(Zs) :
                 \/ RGt(Zs[j], th) /\ RGt(Ss[j], th)
                 \/ RLt(Zs[j], RSub(One, th)) /\ RLt(Ss[j], RSub(One, th))})

\* streamlit_app.compute_corner_dwell (lines 48-57) on the returned
\* trajectory.  dwell_time / (len(Z) * dt) is a division of Python floats:
\* a zero divisor raises ZeroDivisionError and the script stops there.
ComputeCornerDwell ==
  /\ prog = "collapse"
  /\ pc = "dwell"
  /\ LET n == DwellCount(Zh, Sh, corner_th)
         dwell_time == RMul(Rat(n, 1), dt)
         total == RMul(Rat(Len(Zh), 1), dt)
     IN  IF total = Zero
         THEN /\ pc' = "ZeroDivisionError"
              /\ dwell_steps' = n
              /\ UNCHANGED <<dwell_frac, status>>
         ELSE /\ pc' = "done"
              /\ dwell_steps' = n
              /\ dwell_frac' = RDiv(dwell_time, total)
              \* lines 190-195
              /\ status' = AppStatusBand(dwell_frac')
  /\ UNCHANGED <<prog, simVars, refVars, rotPar, shearPar, bookVars, max_run,
                 quenchVars, flags, entries, run, prev, fi, bndVars,
                 collVars, k_zs, k_sz, omega_z, omega_s>>

(* ----------- 3_Toy_3_Corner_Collapse.simulate_collapse ---------------- *)
InitSimCollapse ==
  /\ prog = "simcollapse"
  /\ pc = "loop"
  /\ steps \in -1..MaxSteps
  /\ i = 0
  /\ dt \in CollapseSteps
  /\ drive_Z \in Drives
  /\ drive_S \in Drives
  /\ k_collapse \in PageCollapse
  /\ corner_th \in CollapseThresholds
  /\ Z0 \in Starts
  /\ S0 \in Starts
  /\ Z = Z0
  /\ S = S0
  /\ Zh = <<>>
  /\ Sh = <<>>
  /\ hits = <<>>
  /\ c = One /\ s = Zero /\ quench_strength = Zero
  /\ policy = "" /\ x = Zero /\ lo = Zero /\ hi = Zero /\ Tz = One /\ y = Zero
  /\ NoRef
  /\ NoShear
  /\ max_run = 0
  /\ NoQuench
  /\ NoStats
  /\ NoToy

\* One iteration of simulate_collapse's loop (lines 20-37).
SimCollapseStep ==
  /\ prog = "simcollapse"
  /\ pc = "loop"
  /\ i < steps
  /\ LET hit == in_corner_collapse(Z, S, corner_th)
         dZ0 == RMul(drive_Z, RSub(Half, Z))
         dS0 == RMul(drive_S, RSub(S, Half))
         dZ == IF hit THEN RSub(dZ0, RMul(k_collapse, RSub(Z, Half))) ELSE dZ0
         dS == IF hit THEN RAdd(dS0, RMul(k_collapse, RSub(Half, S))) ELSE dS0
         Zn == clamp01(RAdd(Z, RMul(dt, dZ)))
         Sn == clamp01(RAdd(S, RMul(dt, dS)))
     IN  /\ Fits(Zn, Sn)
         /\ hits' = Append(hits, IF hit THEN 1 ELSE 0)
         /\ Z' = Zn
         /\ S' = Sn
         /\ Zh' = Record(Zh, Zn)
         /\ Sh' = Record(Sh, Sn)
  /\ i' = i + 1
  /\ UNCHANGED <<prog, pc, steps, refVars, rotPar, shearPar, bookVars,
                 max_run, quenchVars, statVars, bndVars, drive_Z, drive_S,
                 k_collapse, Z0, S0, toyVars>>

\* simulate_collapse returns (line 39); the script calls corner_dwell(hits,
\* dt) (lines 68-72, 98): dwell_steps = hits.sum(), dwell_frac.
SimCollapseReturn ==
  /\ prog = "simcollapse"
  /\ pc = "loop"
  /\ ~(i < steps)
  /\ pc' = "done"
  /\ dwell_steps' = SeqSum(hits)
  /\ dwell_frac' = IF Len(hits) # 0 THEN Rat(SeqSum(hits), Len(hits)) ELSE Zero
  /\ status' = CollapseStatusBand(dwell_frac')
  /\ UNCHANGED <<prog, simVars, refVars, rotPar, shearPar, bookVars, max_run,
                 quenchVars, flags, entries, run, prev, fi, bndVars,
                 collVars, k_zs, k_sz, omega_z, omega_s>>

(* ----------------------- streamlit_app.square_toy --------------------- *)
InitSquare ==
  /\ prog = "square"
  /\ pc = "loop"
  /\ steps \in -1..MaxSteps
  /\ i = 0
  /\ dt \in ToySteps
  /\ Z = Rat(3, 5)
  /\ S = Rat(2, 5)
  /\ Zh = <<>>
  /\ Sh = <<>>
  /\ corner_th = Zero /\ c = One /\ s = Zero /\ quench_strength = Zero
  /\ policy = "" /\ x = Zero /\ lo = Zero /\ hi = Zero /\ Tz = One /\ y = Zero
  /\ NoRef
  /\ NoShear
  /\ max_run = 0
  /\ NoQuench
  /\ NoStats
  /\ NoCollapse
  /\ NoToy

\* One iteration of square_toy's loop (lines 68-76).
SquareStep ==
  /\ prog = "square"
  /\ pc = "loop"
  /\ i < steps
  /\ LET dZ == RSub(Z, Half)
         dS == RSub(S, Half)
         Zn == clamp(RAdd(Z, RMul(dt, dZ)), Zero, One)
         Sn == clamp(RAdd(S, RMul(dt, dS)), Zero, One)
     IN  /\ Fits(Zn, Sn)
         /\ Z' = Zn
         /\ S' = Sn
         /\ Zh' = Record(Zh, Zn)
         /\ Sh' = Record(Sh, Sn)
  /\ i' = i + 1
  /\ UNCHANGED <<prog, pc, steps, refVars, rotPar, shearPar, bookVars,
                 max_run, quenchVars, statVars, bndVars, collVars, toyVars>>

\* square_toy returns the trajectory (line 78).
SquareReturn ==
  /\ prog = "square"
  /\ pc = "loop"
  /\ ~(i < steps)
  /\ pc' = "done"
  /\ UNCHANGED <<prog, simVars, refVars, rotPar, shearPar, bookVars, max_run,
                 quenchVars, statVars, bndVars, collVars, toyVars>>

(* ---------------------- streamlit_app.coupled_toy --------------------- *)
InitCoupled ==
  /\ prog = "coupled"
  /\ pc = "loop"
  /\ steps \in -1..MaxSteps
  /\ i = 0
  /\ dt \in CoupledSteps
  /\ k_zs \in Couplings
  /\ k_sz \in Couplings
  /\ Z = Rat(3, 5)
  /\ S = Rat(2, 5)
  /\ Zh = <<>>
  /\ Sh = <<>>
  /\ corner_th = Zero /\ c = One /\ s = Zero /\ quench_strength = Zero
  /\ policy = "" /\ x = Zero /\ lo = Zero /\ hi = Zero /\ Tz = One /\ y = Zero
  /\ omega_z = Zero /\ omega_s = Zero /\ status = ""
  /\ NoRef
  /\ NoShear
  /\ max_run = 0
  /\ NoQuench
  /\ NoStats
  /\ NoCollapse

\* The derivatives of coupled_toy (lines 86-90), both read from the pre-step
\* pair.
CoupledDeriv(z, sg, kzs, ksz) ==
  <<RAdd(RSub(Half, z), RMul(kzs, RSub(sg, Half))),
    RAdd(RSub(Half, sg), RMul(ksz, RSub(z, Half)))>>

\* One iteration of coupled_toy's loop (lines 85-96).
CoupledStep ==
  /\ prog = "coupled"
  /\ pc = "loop"
  /\ i < steps
  /\ LET d == CoupledDeriv(Z, S, k_zs, k_sz)
         Zn == clamp(RAdd(Z, RMul(dt, d[1])), Zero, One)
         Sn == clamp(RAdd(S, RMul(dt, d[2])), Zero, One)
     IN  /\ Fits(Zn, Sn)
         /\ Z' = Zn
         /\ S' = Sn
         /\ Zh' = Record(Zh, Zn)
         /\ Sh' = Record(Sh, Sn)
  /\ i' = i + 1
  /\ UNCHANGED <<prog, pc, steps, refVars, rotPar, shearPar, bookVars,
                 max_run, quenchVars, statVars, bndVars, collVars, toyVars>>

\* coupled_toy returns the trajectory (line 98).
CoupledReturn ==
  /\ prog = "coupled"
  /\ pc = "loop"
  /\ ~(i < steps)
  /\ pc' = "done"
  /\ UNCHANGED <<prog, simVars, refVars, rotPar, shearPar, bookVars, max_run,
                 quenchVars, statVars, bndVars, collVars, toyVars>>

(* ------------------ 2_Toy_2_Coupled.simulate_coupled ------------------ *)
InitSimCoupled ==
  /\ prog = "simcoupled"
  /\ pc = "loop"
  /\ steps \in -1..MaxSteps
  /\ i = 0
  /\ dt \in CoupledSteps
  /\ k_zs \in Couplings
  /\ k_sz \in Couplings
  /\ Z0 \in {Rat(3, 5), Rat(1, 10)}
  /\ S0 \in {Rat(2, 5), Rat(9, 10)}
  /\ Z = Z0
  /\ S = S0
  /\ Zh = <<>>
  /\ Sh = <<>>
  /\ corner_th = Zero /\ c = One /\ s = Zero /\ quench_strength = Zero
  /\ policy = "" /\ x = Zero /\ lo = Zero /\ hi = Zero /\ Tz = One /\ y = Zero
  /\ omega_z = Zero /\ omega_s = Zero /\ status = ""
  /\ drive_Z = Zero /\ drive_S = Zero /\ k_collapse = Zero /\ hits = <<>>
  /\ NoRef
  /\ NoShear
  /\ max_run = 0
  /\ NoQuench
  /\ NoStats

\* np.sign
Sign(a) == IF RGt(a, Zero) THEN One ELSE IF RLt(a, Zero) THEN RNeg(One) ELSE Zero

\* The derivatives of simulate_coupled (lines 18-23): sign driver plus
\* coupling, both read from the pre-step pair.
SimCoupledDeriv(z, sg, kzs, ksz) ==
  <<RAdd(Sign(RSub(Half, z)), RMul(kzs, RSub(sg, Half))),
    RAdd(Sign(RSub(sg, Half)), RMul(ksz, RSub(z, Half)))>>

\* One iteration of simulate_coupled's loop (lines 16-29).
SimCoupledStep ==
  /\ prog = "simcoupled"
  /\ pc = "loop"
  /\ i < steps
  /\ LET d == SimCoupledDeriv(Z, S, k_zs, k_sz)
         Zn == clamp01(RAdd(Z, RMul(dt, d[1])))
         Sn == clamp01(RAdd(S, RMul(dt, d[2])))
     IN  /\ Fits(Zn, Sn)
         /\ Z' = Zn
         /\ S' = Sn
         /\ Zh' = Record(Zh, Zn)
         /\ Sh' = Record(Sh, Sn)
  /\ i' = i + 1
  /\ UNCHANGED <<prog, pc, steps, refVars, rotPar, shearPar, bookVars,
                 max_run, quenchVars, statVars, bndVars, collVars, toyVars>>

\* simulate_coupled returns the trajectory (line 31).
SimCoupledReturn ==
  /\ prog = "simcoupled"
  /\ pc = "loop"
  /\ ~(i < steps)
  /\ pc' = "done"
  /\ UNCHANGED <<prog, simVars, refVars, rotPar, shearPar, bookVars, max_run,
                 quenchVars, statVars, bndVars, collVars, toyVars>>

(* --------------------- 1_Toy_1_Square.toy1_square --------------------- *)
\* The state at entry: lo, hi = 0.0, scan_max; Z = 0.62 * hi; S = 0.41 * hi
\* (lines 57-61).
InitToy1 ==
  /\ prog = "toy1"
  /\ pc = "alloc"
  /\ steps \in -1..MaxSteps
  /\ i = 0
  /\ dt \in Toy1Steps
  /\ omega_z \in ClockRates
  /\ omega_s \in ClockRates
  /\ lo = Zero
  /\ hi \in ScanMaxes
  /\ Z = RMul(Rat(31, 50), hi)
  /\ S = RMul(Rat(41, 100), hi)
  /\ Zh = <<>>
  /\ Sh = <<>>
  /\ corner_th = Zero /\ c = One /\ s = Zero /\ quench_strength = Zero
  /\ policy = "reflect01" /\ x = Zero /\ Tz = One /\ y = Zero
  /\ k_zs = Zero /\ k_sz = Zero /\ status = ""
  /\ NoRef
  /\ NoShear
  /\ max_run = 0
  /\ NoQuench
  /\ NoStats
  /\ NoCollapse

\* Z_hist = np.empty(steps) (lines 63-64): a negative size raises ValueError.
Toy1Alloc ==
  /\ prog = "toy1"
  /\ pc = "alloc"
  /\ pc' = IF steps < 0 THEN "ValueError" ELSE "loop"
  /\ UNCHANGED <<prog, simVars, refVars, rotPar, shearPar, bookVars, max_run,
                 quenchVars, statVars, bndVars, collVars, toyVars>>

\* One iteration of toy1_square's loop (lines 70-74); vZ = omega_z * hi.
Toy1Step ==
  /\ prog = "toy1"
  /\ pc = "loop"
  /\ i < steps
  /\ LET vZ == RMul(omega_z, hi)
         vS == RMul(omega_s, hi)
         Zn == reflect01(RAdd(Z, RMul(dt, vZ)), lo, hi)
         Sn == reflect01(RAdd(S, RMul(dt, vS)), lo, hi)
     IN  /\ Fits(Zn, Sn)
         /\ Z' = Zn
         /\ S' = Sn
         /\ Zh' = Record(Zh, Zn)
         /\ Sh' = Record(Sh, Sn)
  /\ i' = i + 1
  /\ UNCHANGED <<prog, pc, steps, refVars, rotPar, shearPar, bookVars,
                 max_run, quenchVars, statVars, bndVars, collVars, toyVars>>

\* toy1_square returns Z_hist, S_hist, lo, hi (line 76).
Toy1Return ==
  /\ prog = "toy1"
  /\ pc = "loop"
  /\ ~(i < steps)
  /\ pc' = "done"
  /\ UNCHANGED <<prog, simVars, refVars, rotPar, shearPar, bookVars, max_run,
                 quenchVars, statVars, bndVars, collVars, toyVars>>

Init ==
  \/ InitShear
  \/ InitQuench
  \/ InitDwell
  \/ InitBoundary
  \/ InitCorner
  \/ InitStatus
  \/ InitCollapse
  \/ InitSimCollapse
  \/ InitSquare
  \/ InitCoupled
  \/ InitSimCoupled
  \/ InitToy1

Next ==
  \/ ShearStep
  \/ ShearClose
  \/ QuenchAlloc
  \/ QuenchStep
  \/ QuenchReturn
  \/ StatsBegin
  \/ StatsStep
  \/ StatsReturn
  \/ BoundaryApply
  \/ CornerCall
  \/ StatusReport
  \/ CollapseStep
  \/ CollapseReturn
  \/ ComputeCornerDwell
  \/ SimCollapseStep
  \/ SimCollapseReturn
  \/ SquareStep
  \/ SquareReturn
  \/ CoupledStep
  \/ CoupledReturn
  \/ SimCoupledStep
  \/ SimCoupledReturn
  \/ Toy1Alloc
  \/ Toy1Step
  \/ Toy1Return

Spec == Init /\ [][Next]_vars

(* ========================= properties checked ========================= *)
In01(r) == RLe(Zero, r) /\ RLe(r, One)

\* page_2: the state before step j, the state its rotation gives, and the
\* flag the loop tested at step j.
ShearStart == <<RAdd(Half, kickZ), RAdd(Half, kickS)>>
ShearBefore(j) == IF j = 1 THEN ShearStart ELSE <<Zh[j - 1], Sh[j - 1]>>
ShearRotated(j) == RotateShear(ShearBefore(j)[1], ShearBefore(j)[2], c, s)
ShearHitFlags ==
  [j \in 1..Len(Zh) |->
     in_corner_shear(ShearRotated(j)[1], ShearRotated(j)[2], corner_th)]

\* Reference definitions over a flag sequence f.
NumTrue(f, n) == Cardinality({j \in 1..n : f[j]})
NumRuns(f, n) == Cardinality({j \in 1..n : f[j] /\ (j = 1 \/ ~f[j - 1])})
AllTrue(f, a, b) == \A j \in a..b : f[j]
LongestRun(f, n) ==
  LET lens == {b - a + 1 : <<a, b>> \in
                 {w \in (1..n) \X (1..n) : w[1] <= w[2] /\ AllTrue(f, w[1], w[2])}}
  IN  IF lens = {} THEN 0 ELSE CHOOSE m \in lens : \A k \in lens : k <= m

\* C1 (as claimed): every recorded state of every run has both coordinates
\* in [0, 1].
C1_RecordedStatesInUnitSquare ==
  prog \in {"shear", "quench", "collapse", "simcollapse"} =>
    \A j \in 1..Len(Zh) : In01(Zh[j]) /\ In01(Sh[j])

\* C2: for bounds lo < hi every boundary policy (clamp, reflect01, wrap)
\* returns a value in [lo, hi], however far outside x lies.
C2_PolicyResultInRange ==
  (prog = "boundary" /\ pc = "ret" /\ RLt(lo, hi)) =>
    (RLe(lo, y) /\ RLe(y, hi))

\* C2 witness: reflect01 has folded an x several widths below lo.
C2_Witness ==
  /\ prog = "boundary" /\ pc = "ret" /\ policy = "reflect01"
  /\ RLt(lo, hi)
  /\ RLt(x, RSub(lo, RMul(<<3, 1>>, RSub(hi, lo))))
  /\ RLt(lo, y) /\ RLt(y, hi)

\* C3: with quench_strength = 0 the squared distance from the centre after
\* every step equals its initial value (page_2: every recorded (Z, S);
\* toy3_corner_quench: the rotated amplitude (u, v)).
C3_RotationConservesDistance ==
  quench_strength = Zero =>
    /\ prog = "shear" =>
         \A j \in 1..Len(Zh) :
           Dist2(Zh[j], Sh[j]) = Dist2(ShearStart[1], ShearStart[2])
    /\ prog = "quench" =>
         Dist2(RAdd(Half, u), RAdd(Half, v)) =
           Dist2(RAdd(Half, amp), RAdd(Half, RMul(Rat(-3, 5), amp)))

\* C3 witness: a quench-free page_2 run of at least three steps that passed
\* through a corner.
C3_Witness ==
  /\ prog = "shear" /\ quench_strength = Zero
  /\ Len(Zh) >= 3 /\ corner_steps >= 1

\* C4 (as claimed): a step whose post-rotation state is not in the corner
\* region leaves the distance from the centre unchanged, in page_2 and in
\* toy3_corner_quench (whatever the shear).
C4_OnlyCornerStepsChangeDistance ==
  [][/\ (prog = "shear" /\ i' = i + 1) =>
          LET r == RotateShear(Z, S, c, s)
          IN  ~in_corner_shear(r[1], r[2], corner_th) =>
                Dist2(Z', S') = Dist2(Z, S)
     /\ (prog = "quench" /\ i' = i + 1) =>
          LET r == RotateQuench(u, v, c, s)
          IN  ~in_corner(RAdd(Half, r[1]), RAdd(Half, r[2]), corner_th) =>
                Dist2(RAdd(Half, u'), RAdd(Half, v')) =
                  Dist2(RAdd(Half, u), RAdd(Half, v))]_vars

\* C5: with quench_strength > 0 every in-corner step strictly decreases the
\* distance from the centre, unless the step lands on the quench target.
C5_QuenchContracts ==
  [][/\ (prog = "shear" /\ i' = i + 1 /\ corner_steps' = corner_steps + 1
           /\ RGt(quench_strength, Zero)) =>
          \/ RLt(Dist2(Z', S'), Dist2(Z, S))
          \/ <<Z', S'>> = target_point(quench_target, corner_th)
     /\ (prog = "quench" /\ i' = i + 1 /\ RGt(quench_strength, Zero)
           /\ LET r == RotateQuench(u, v, c, s)
                  w == ShearView(r[1], r[2], shear)
              IN  in_corner(clamp(w[1], Zero, One), clamp(w[2], Zero, One),
                            corner_th)) =>
          RLt(Dist2(RAdd(Half, u'), RAdd(Half, v')),
              Dist2(RAdd(Half, u), RAdd(Half, v)))]_vars

\* C5 witness: a page_2 run started inside a corner whose first two steps
\* were both in-corner and quenched with 0 < quench_strength < 1.
C5_Witness ==
  /\ prog = "shear" /\ quench_strength = Half
  /\ in_corner_shear(ShearStart[1], ShearStart[2], corner_th)
  /\ Len(Zh) = 2 /\ corner_steps = 2
  /\ RLt(Dist2(Zh[2], Sh[2]), Dist2(Zh[1], Sh[1]))
  /\ RLt(Dist2(Zh[1], Sh[1]), Dist2(ShearStart[1], ShearStart[2]))

\* C6: with quench_strength = 0 the corner-quench run records, step for
\* step, what the rotation alone records from the same start.
C6_ZeroQuenchIsPureRotation ==
  quench_strength = Zero =>
    /\ prog = "shear" => (Zh = Zrot /\ Sh = Srot)
    /\ prog = "quench" =>
         /\ Len(Zh) = Len(Zrot)
         /\ \A j \in 1..Len(Zh) :
              /\ Zh[j] = clamp(RAdd(Half, Zrot[j]), Zero, One)
              /\ Sh[j] = clamp(RAdd(Half, Srot[j]), Zero, One)

\* C6 witness: a quench-free run with an in-corner step.
C6_Witness ==
  /\ prog = "shear" /\ quench_strength = Zero /\ corner_steps >= 1
  /\ Len(Zh) >= 2

\* C7 (as claimed): the reported dwell step count is the number of recorded
\* states that are in-corner.
C7_DwellCountsRecordedStates ==
  /\ (prog = "shear" /\ pc = "done") =>
       corner_steps =
         Cardinality({j \in 1..Len(Zh) :
                        in_corner_shear(Zh[j], Sh[j], corner_th)})
  /\ (prog \in {"quench", "dwell"} /\ pc = "done") =>
       dwell_steps =
         Cardinality({j \in 1..Len(Zh) : in_corner(Zh[j], Sh[j], corner_th)})
  /\ (prog = "simcollapse" /\ pc = "done") =>
       dwell_steps =
         Cardinality({j \in 1..Len(Zh) :
                        in_corner_collapse(Zh[j], Sh[j], corner_th)})

\* C8: entry_count <= dwell_count, max_run_length <= dwell_count,
\* dwell_count = number of True flags and 0 <= dwell_fraction <= 1, after
\* every prefix of the flags.
C8_DwellStatsConsistent ==
  /\ (prog \in {"quench", "dwell"} /\ pc \in {"statsloop", "done"}) =>
       /\ dwell_steps = NumTrue(flags, Len(flags))
       /\ entries <= NumTrue(flags, fi)
       /\ max_run <= NumTrue(flags, fi)
       /\ NumTrue(flags, fi) <= dwell_steps
       /\ RLe(Zero, dwell_frac) /\ RLe(dwell_frac, One)
  /\ prog = "shear" =>
       /\ corner_steps = NumTrue(ShearHitFlags, Len(Zh))
       /\ corner_hits <= corner_steps
       /\ SeqMax(corner_run_lengths) <= corner_steps
       /\ pc = "done" =>
            /\ max_run <= corner_steps
            /\ RLe(Zero, dwell_fraction) /\ RLe(dwell_fraction, One)

\* C8 witness: statistics of a trajectory with two runs, mid-loop.
C8_Witness ==
  /\ prog = "dwell" /\ pc = "statsloop"
  /\ fi = 4 /\ entries = 2 /\ dwell_steps = 4 /\ max_run = 2

\* C9: entry_count is the number of maximal runs of True flags (a run may
\* start at step 0 and may still be open at the last step).
C9_EntriesAreRuns ==
  /\ (prog \in {"quench", "dwell"} /\ pc \in {"statsloop", "done"}) =>
       entries = NumRuns(flags, fi)
  /\ (prog = "shear" /\ pc = "done") =>
       corner_hits = NumRuns(ShearHitFlags, Len(Zh))

\* C9 witness: a trajectory that starts in-corner and ends in an open run.
C9_Witness ==
  /\ prog = "dwell" /\ pc = "done"
  /\ Len(flags) = 5 /\ flags[1] /\ ~flags[2] /\ flags[5]
  /\ entries = 3

\* C10: max_run_length is the length of the longest run of True flags, 0
\* when there is none, also when the longest run ends at the last step.
C10_MaxRunIsLongestRun ==
  /\ (prog \in {"quench", "dwell"} /\ pc \in {"statsloop", "done"}) =>
       max_run = LongestRun(flags, fi)
  /\ (prog = "shear" /\ pc = "done") =>
       max_run = LongestRun(ShearHitFlags, Len(Zh))

\* C10 witness: the longest run is the one that ends at the last step.
C10_Witness ==
  /\ prog = "dwell" /\ pc = "done"
  /\ Len(flags) = 5 /\ flags[1] /\ ~flags[2] /\ ~flags[3] /\ flags[4]
  /\ flags[5] /\ max_run = 2

\* The fraction every dwell computation should report for count n over a
\* trajectory of len states.
FractionOf(n, len) == IF len = 0 THEN Zero ELSE Rat(n, len)

\* C11 (as claimed): every dwell computation reports dwell_count / total
\* steps, 0 for an empty trajectory, and none of them stops with a
\* division-by-zero fault.
C11_DwellFractionDefined ==
  /\ pc # "ZeroDivisionError"
  /\ (prog \in {"quench", "dwell"} /\ pc \in {"statsloop", "done"}) =>
       dwell_frac = FractionOf(dwell_steps, Len(flags))
  /\ (prog = "simcollapse" /\ pc = "done") =>
       dwell_frac = FractionOf(dwell_steps, Len(hits))
  /\ (prog = "collapse" /\ pc = "done") =>
       dwell_frac = FractionOf(dwell_steps, Len(Zh))
  /\ (prog = "shear" /\ pc = "done") =>
       dwell_fraction = FractionOf(corner_steps, steps)

\* The Corner Region with strict inequalities.
StrictCorner(z, sg, th) ==
  \/ RGt(z, th) /\ RGt(sg, th)
  \/ RLt(z, RSub(One, th)) /\ RLt(sg, RSub(One, th))

\* C12 (as claimed): every in_corner implementation flags (Z, S) exactly
\* when it is strictly inside a corner; a coordinate equal to th or 1 - th
\* is not in-corner.
C12_InCornerStrictEverywhere ==
  (prog = "corner" /\ pc = "ret") =>
    \A k \in 1..Len(flags) : flags[k] = StrictCorner(Z, S, corner_th)

\* Repeated mirroring of p at the wall it lies beyond, until it is in
\* [a, b] (a < b).
RECURSIVE MirrorFold(_, _, _)
MirrorFold(p, a, b) ==
  IF RGt(p, b) THEN MirrorFold(RSub(RMul(<<2, 1>>, b), p), a, b)
  ELSE IF RLt(p, a) THEN MirrorFold(RSub(RMul(<<2, 1>>, a), p), a, b)
  ELSE p

\* C13: for lo < hi, reflect01 returns what repeated mirroring at the wall
\* crossed returns, for x any number of widths outside [lo, hi] on either
\* side.
C13_ReflectIsRepeatedMirror ==
  (prog = "boundary" /\ pc = "ret" /\ policy = "reflect01" /\ RLt(lo, hi)) =>
    y = MirrorFold(x, lo, hi)

\* C13 witness: an x more than two widths above hi was folded into the
\* open interval.
C13_Witness ==
  /\ prog = "boundary" /\ pc = "ret" /\ policy = "reflect01"
  /\ RLt(lo, hi)
  /\ RGt(x, RAdd(hi, RMul(<<2, 1>>, RSub(hi, lo))))
  /\ y = MirrorFold(x, lo, hi)
  /\ RLt(lo, y) /\ RLt(y, hi)

\* C14: for lo < hi, reflect01 is the identity on [lo, hi], walls included,
\* and reflect01(hi + d) = hi - d for 0 <= d <= hi - lo.
C14_ReflectIdentityAndBounce ==
  (prog = "boundary" /\ pc = "ret" /\ policy = "reflect01" /\ RLt(lo, hi)) =>
    /\ (RLe(lo, x) /\ RLe(x, hi)) => y = x
    /\ (RLe(hi, x) /\ RLe(x, RAdd(hi, RSub(hi, lo)))) =>
         y = RSub(hi, RSub(x, hi))

\* C14 witness: a full-width overshoot, x = hi + (hi - lo), bounced onto lo.
C14_Witness ==
  /\ prog = "boundary" /\ pc = "ret" /\ policy = "reflect01"
  /\ RLt(lo, hi)
  /\ x = RAdd(hi, RSub(hi, lo))
  /\ y = lo

\* The programs that run a simulation loop, and the positions after it.
SimProgs ==
  {"shear", "quench", "collapse", "simcollapse", "square", "coupled",
   "simcoupled", "toy1"}
Finished == {"done", "stats", "statsloop", "dwell", "ZeroDivisionError"}

\* C15: a run of n >= 0 steps holds exactly k recorded states after k
\* iterations and exactly n when it has finished; every iteration appends
\* the state it produced to the states recorded before it.
C15_OneStatePerIteration ==
  /\ [](prog \in SimProgs /\ steps >= 0 =>
          /\ Len(Zh) = i /\ Len(Sh) = i
          /\ i <= steps
          /\ pc \in Finished => (Len(Zh) = steps /\ Len(Sh) = steps))
  /\ [][(prog \in SimProgs /\ i' = i + 1) =>
          (Zh' = Append(Zh, Z') /\ Sh' = Append(Sh, S'))]_vars

\* C15 witness: a finished run of at least three steps, and its states are
\* not all equal.
C15_Witness ==
  /\ prog = "coupled" /\ pc = "done" /\ steps >= 3
  /\ Len(Zh) = steps
  /\ Zh[1] # Zh[2] /\ Zh[2] # Zh[3]

\* C16 (as claimed): a request of steps <= 0 ends with an empty trajectory
\* in every simulation function, and none of them raises.
C16_NonPositiveStepsGiveEmptyRun ==
  (prog \in SimProgs /\ steps <= 0) =>
    /\ pc # "ValueError"
    /\ Zh = <<>> /\ Sh = <<>>

\* The state before recorded step j of a run started at (z0, s0).
PrevZ(j, z0) == IF j = 1 THEN z0 ELSE Zh[j - 1]
PrevS(j, s0) == IF j = 1 THEN s0 ELSE Sh[j - 1]

\* Z rises strictly until it is 1 and stays there; S falls strictly until
\* it is 0 and stays there.
RisesAndFalls(z0, s0) ==
  \A j \in 1..Len(Zh) :
    /\ RLt(PrevZ(j, z0), One) => RGt(Zh[j], PrevZ(j, z0))
    /\ PrevZ(j, z0) = One => Zh[j] = One
    /\ RGt(PrevS(j, s0), Zero) => RLt(Sh[j], PrevS(j, s0))
    /\ PrevS(j, s0) = Zero => Sh[j] = Zero

\* C17 (as claimed): in the clamped uncoupled runs started at (0.6, 0.4),
\* square_toy and simulate_coupled with zero couplings, Z strictly
\* increases until it reaches 1.0 and then stays 1.0, and S strictly
\* decreases until it reaches 0.0 and then stays 0.0.
C17_ClampedClocksRun ==
  /\ prog = "square" => RisesAndFalls(Rat(3, 5), Rat(2, 5))
  /\ (prog = "simcoupled" /\ k_zs = Zero /\ k_sz = Zero
        /\ Z0 = Rat(3, 5) /\ S0 = Rat(2, 5)) =>
       RisesAndFalls(Z0, S0)

\* The three bands: below 0.05, from 0.05 to below 0.15, 0.15 and above.
ThreeBands(f) ==
  IF RLt(f, Rat(1, 20)) THEN "stable"
  ELSE IF RLt(f, Rat(3, 20)) THEN "pre-instability"
  ELSE "high instability"

\* The fraction a status was reported for.
ReportedFraction ==
  IF prog \in {"shear", "status_page_2"} THEN dwell_fraction ELSE dwell_frac

\* A status has been reported.
StatusReported ==
  \/ prog \in StatusSites /\ pc = "ret"
  \/ prog \in {"shear", "quench", "simcollapse", "collapse"} /\ pc = "done"

\* C18 (as claimed): every reported status is the band of the dwell
\* fraction: stable below 0.05 (0 included), pre-instability from 0.05 to
\* below 0.15, high instability from 0.15.
C18_StatusIsTheBand ==
  StatusReported => status = ThreeBands(ReportedFraction)

\* The Euler proposal of S in coupled_toy when the Z it reads is zr.
CoupledS(zr, sg) ==
  clamp(RAdd(sg, RMul(dt, RAdd(RSub(Half, sg), RMul(k_sz, RSub(zr, Half))))),
        Zero, One)
CoupledZ(z, sr) ==
  clamp(RAdd(z, RMul(dt, RAdd(RSub(Half, z), RMul(k_zs, RSub(sr, Half))))),
        Zero, One)
\* The same for simulate_coupled.
SimCoupledS(zr, sg) ==
  clamp(RAdd(sg, RMul(dt, RAdd(Sign(RSub(sg, Half)),
                               RMul(k_sz, RSub(zr, Half))))), Zero, One)
SimCoupledZ(z, sr) ==
  clamp(RAdd(z, RMul(dt, RAdd(Sign(RSub(Half, z)),
                              RMul(k_zs, RSub(sr, Half))))), Zero, One)
\* The rotation of the offsets (a, b) from the pre-step pair.
FromPreStep(a, b) ==
  <<RAdd(RMul(c, a), RMul(s, b)), RSub(RMul(c, b), RMul(s, a))>>
FromPreStepQuench(a, b) ==
  <<RSub(RMul(c, a), RMul(s, b)), RAdd(RMul(s, a), RMul(c, b))>>

\* C19: in every step both new coordinates are computed from the pre-step
\* pair: coupled_toy and simulate_coupled read the pre-step Z for dS (and
\* the pre-step S for dZ); the rotations of page_2 and toy3_corner_quench
\* form both new offsets from the pre-step offsets.
C19_StepReadsPreStepPair ==
  [][/\ (prog = "coupled" /\ i' = i + 1) =>
          (Z' = CoupledZ(Z, S) /\ S' = CoupledS(Z, S))
     /\ (prog = "simcoupled" /\ i' = i + 1) =>
          (Z' = SimCoupledZ(Z, S) /\ S' = SimCoupledS(Z, S))
     /\ (prog = "shear" /\ i' = i + 1) =>
          LET r == FromPreStep(RSub(Z, Half), RSub(S, Half))
              zr == RAdd(r[1], Half)
              sr == RAdd(r[2], Half)
              t == target_point(quench_target, corner_th)
          IN  IF corner_steps' = corner_steps + 1
              THEN /\ Z' = QuenchShear(zr, quench_strength, t[1])
                   /\ S' = QuenchShear(sr, quench_strength, t[2])
              ELSE Z' = zr /\ S' = sr
     /\ (prog = "quench" /\ i' = i + 1) =>
          LET r == FromPreStepQuench(u, v)
          IN  \/ u' = r[1] /\ v' = r[2]
              \/ /\ u' = ShrinkQuench(r[1], quench_strength)
                 /\ v' = ShrinkQuench(r[2], quench_strength)]_vars

\* C19 witness: a coupled_toy run whose second S was computed from the
\* first recorded Z, where reading the second Z instead would have given
\* another value.
C19_Witness ==
  /\ prog = "coupled" /\ Len(Zh) >= 2 /\ k_sz # Zero
  /\ Sh[2] = CoupledS(Zh[1], Sh[1])
  /\ Sh[2] # CoupledS(Zh[2], Sh[1])

\* C20: in page_2's loop, after every step corner_steps =
\* sum(corner_run_lengths) + current_run, corner_hits =
\* len(corner_run_lengths) and every recorded run length is >= 1; after the
\* final close sum(corner_run_lengths) = corner_steps, the open run having
\* been recorded once, as the last length.
C20_InlineRunBookkeeping ==
  prog = "shear" =>
    /\ corner_hits = Len(corner_run_lengths)
    /\ \A k \in 1..Len(corner_run_lengths) : corner_run_lengths[k] >= 1
    /\ pc = "loop" =>
         corner_steps = SeqSum(corner_run_lengths) + current_run
    /\ pc = "done" =>
         /\ corner_steps = SeqSum(corner_run_lengths)
         /\ current_run > 0 =>
              corner_run_lengths[Len(corner_run_lengths)] = current_run

\* C20 witness: a finished run with a closed earlier run and a final run
\* that was still open when the loop ended.
C20_Witness ==
  /\ prog = "shear" /\ pc = "done"
  /\ current_run > 0
  /\ Len(corner_run_lengths) >= 2
  /\ corner_steps = SeqSum(corner_run_lengths)

\* C21: in corner_collapse_toy (start (0.6, 0.4), dt > 0, drives > 0,
\* 0 < k_collapse < 1, th > 0.6) Z never decreases and S never increases,
\* no recorded state is in-corner, the state tested by the loop is never
\* in-corner (the collapse branch is not taken), and the dwell fraction
\* compute_corner_dwell returns is 0.
C21_CollapseToyNeverInCorner ==
  prog = "collapse" =>
    /\ \A j \in 1..Len(Zh) :
         /\ RGe(Zh[j], PrevZ(j, Rat(3, 5)))
         /\ RLe(Sh[j], PrevS(j, Rat(2, 5)))
         /\ ~StrictCorner(Zh[j], Sh[j], corner_th)
    /\ ~in_corner_app(Z, S, corner_th)
    /\ pc = "done" => (dwell_steps = 0 /\ dwell_frac = Zero)

\* C21 witness: a finished run that was driven into the walls Z = 1 and
\* S = 0 and whose dwell fraction was computed.
C21_Witness ==
  /\ prog = "collapse" /\ pc = "done" /\ Len(Zh) >= 3
  /\ RLt(Zh[1], One) /\ Zh[Len(Zh)] = One
  /\ RGt(Sh[1], Zero) /\ Sh[Len(Sh)] = Zero
  /\ dwell_frac = Zero
====
